---- MODULE Spec2Model ----
(***************************************************************************)
(* Model of sto_libdata's NormalizationHandler                             *)
(* (src/src/sto_libdata/dataframe_handling/normalization.py): the table    *)
(* state, the foreign-key index with its inverted index, and the           *)
(* operations extract_new_table, rename_table, rename_column, reset_state. *)
(*                                                                         *)
(* Names (str) are modelled by their decomposition at underscores: the     *)
(* string "DIM_NAME" is <<"DIM", "NAME">>, "ID___" is <<"ID","","","">>.   *)
(* Cell values are integers; NaN is the value Null.  A DataFrame is a row  *)
(* count and a bag of labelled columns (pandas allows duplicate labels;    *)
(* the position of a column in the frame is not modelled).                 *)
(***************************************************************************)
EXTENDS Integers, Sequences, FiniteSets, TLC

VARIABLES original_named_dataframes, table_state, foreign_key_handler,
          last, dimension_tables, ops, inference, threads, query

vars == <<original_named_dataframes, table_state, foreign_key_handler,
          last, dimension_tables, ops, inference, threads, query>>

(***************************************************************************)
(* Bounds and input sets                                                   *)
(***************************************************************************)
MaxOps == 3
MaxNamingOps == 1
MaxSegments == 3

Null == -1
None == <<>>

ID == <<"ID">>
CO == <<"CO">>
TXT == <<"TXT">>
K == <<"K">>
FACT == <<"FACT">>
DIM_NAME == <<"DIM", "NAME">>
DIM_CO == <<"DIM", "CO">>
STAGE == <<"STAGE">>
ID_NAME == <<"ID", "NAME">>

Segments == {"DIM", "GEO", "REGION"}
Juan == 7
Juan2 == 8

(***************************************************************************)
(* Generic helpers                                                         *)
(***************************************************************************)
RECURSIVE SortedSeq(_)
SortedSeq(S) ==
    IF S = {} THEN <<>>
    ELSE LET m == CHOOSE x \in S : \A y \in S : x <= y
         IN <<m>> \o SortedSeq(S \ {m})

RECURSIVE SumCounts(_, _)
SumCounts(bag, S) ==
    IF S = {} THEN 0
    ELSE LET c == CHOOSE x \in S : TRUE
         IN bag[c] + SumCounts(bag, S \ {c})

Restrict(f, S) == [x \in S |-> f[x]]

(* dict.pop(key) / del: the mapping without the key *)
Pop(d, k) == Restrict(d, DOMAIN d \ {k})

(* d[k] = v *)
Put(d, k, v) == [x \in DOMAIN d \cup {k} |-> IF x = k THEN v ELSE d[x]]

(* defaultdict.__getitem__: a missing key is inserted with the default *)
Touch(d, k, default) == IF k \in DOMAIN d THEN d ELSE Put(d, k, default)

(***************************************************************************)
(* DataFrame                                                               *)
(***************************************************************************)
Column(name, vals) == [name |-> name, vals |-> vals]

(* pd.DataFrame({...}) from a mapping label -> values, n rows *)
DataFrame(n, f) ==
    [n |-> n, cols |-> [c \in {Column(l, f[l]) : l \in DOMAIN f} |-> 1]]

ColumnLabels(df) == {c.name : c \in DOMAIN df.cols}

Multiplicity(df, label) ==
    SumCounts(df.cols, {c \in DOMAIN df.cols : c.name = label})

(* df[label] for a label that occurs exactly once *)
Values(df, label) == (CHOOSE c \in DOMAIN df.cols : c.name = label).vals

(* image of the bag of columns under a map of columns *)
MapColumns(cols, f) ==
    [c2 \in {f[c] : c \in DOMAIN cols} |->
        SumCounts(cols, {c \in DOMAIN cols : f[c] = c2})]

(* df.rename(columns={old: new}): every column labelled old gets label new *)
RenameLabel(df, old, new) ==
    LET ren == [c \in DOMAIN df.cols |->
                   IF c.name = old THEN Column(new, c.vals) ELSE c]
    IN [df EXCEPT !.cols = MapColumns(df.cols, ren)]

(* df[list(set(df.columns) - labels)] *)
DropLabels(df, labels) ==
    [df EXCEPT !.cols =
        Restrict(df.cols, {c \in DOMAIN df.cols : c.name \notin labels})]

(* df[label] = vals: overwrites every column with that label, or appends *)
SetColumn(df, label, vals) ==
    IF label \in ColumnLabels(df)
    THEN [df EXCEPT !.cols =
            MapColumns(df.cols,
                [c \in DOMAIN df.cols |->
                    IF c.name = label THEN Column(label, vals) ELSE c])]
    ELSE [df EXCEPT !.cols = Put(df.cols, Column(label, vals), 1)]

(***************************************************************************)
(* NormalizationHandler.__extract_table                                    *)
(*   base[column_list].dropna(how="all").drop_duplicates().copy()          *)
(*   reset_index(drop=True); new_table["ID"] = new_table.index + 1         *)
(* column_list holds labels that occur exactly once in base.               *)
(***************************************************************************)
ProjectedRow(df, labels, i) == [l \in labels |-> Values(df, l)[i]]

(* variant: dropna(how="any") *)
DropNaAny(base, column_list) ==
    {i \in 1..base.n :
        \A l \in column_list : ProjectedRow(base, column_list, i)[l] # Null}

(* dropna(how="all"): rows that are NaN on every projected column go *)
DropNaAll(base, column_list) ==
    {i \in 1..base.n :
        \E l \in column_list : ProjectedRow(base, column_list, i)[l] # Null}

(* drop_duplicates(): keep="first"; NaN equals NaN when rows are compared *)
DropDuplicates(base, column_list, rows) ==
    {i \in rows : \A j \in rows :
        j < i => ProjectedRow(base, column_list, j)
                    # ProjectedRow(base, column_list, i)}

(* variant: the surrogate key is the row index itself (new_table.index) *)
extract_table_zero_based(base, column_list) ==
    LET kept == SortedSeq(DropDuplicates(base, column_list,
                                         DropNaAll(base, column_list)))
        N == Len(kept)
        projected ==
            DataFrame(N, [l \in column_list |->
                            [k \in 1..N |-> Values(base, l)[kept[k]]]])
    IN SetColumn(projected, ID, [k \in 1..N |-> k - 1])

extract_table(base, column_list) ==
    LET kept == SortedSeq(DropDuplicates(base, column_list,
                                         DropNaAll(base, column_list)))
        N == Len(kept)
        projected ==
            DataFrame(N, [l \in column_list |->
                            [k \in 1..N |-> Values(base, l)[kept[k]]]])
    IN SetColumn(projected, ID, [k \in 1..N |-> k])

(***************************************************************************)
(* NormalizationHandler.__replace_columns_by_fk                            *)
(*   base.merge(dim, on=join_columns, suffixes=("", "___"), how="left")    *)
(*       .rename(columns={"ID___": fk_column_name})                        *)
(*   merged[list(set(merged.columns) - set(join_columns))]                 *)
(***************************************************************************)
Suffixed(label, suffix) == label \o suffix

ID___ == Suffixed(ID, <<"", "", "">>)

(* variant: rows of dim that agree with row i of base on some join column *)
Matches_on_any_column(base, dim, join_columns, i) ==
    {k \in 1..dim.n :
        \E l \in join_columns :
            ProjectedRow(dim, join_columns, k)[l]
                = ProjectedRow(base, join_columns, i)[l]}

(* rows of dim whose key equals the key of row i of base (NaN matches NaN) *)
Matches(base, dim, join_columns, i) ==
    {k \in 1..dim.n :
        ProjectedRow(dim, join_columns, k) = ProjectedRow(base, join_columns, i)}

(* variant: how="inner", a base row without a matching dim row is dropped *)
RECURSIVE InnerJoinPairs(_, _, _, _)
InnerJoinPairs(base, dim, join_columns, i) ==
    IF i > base.n THEN <<>>
    ELSE LET m == SortedSeq(Matches(base, dim, join_columns, i))
         IN [p \in 1..Len(m) |-> <<i, m[p]>>]
                \o InnerJoinPairs(base, dim, join_columns, i + 1)

(* how="left": every base row in order, once per matching dim row, or once
   with no partner (0) *)
RECURSIVE LeftJoinPairs(_, _, _, _)
LeftJoinPairs(base, dim, join_columns, i) ==
    IF i > base.n THEN <<>>
    ELSE LET m == SortedSeq(Matches(base, dim, join_columns, i))
             here == IF m = <<>> THEN << <<i, 0>> >>
                     ELSE [p \in 1..Len(m) |-> <<i, m[p]>>]
         IN here \o LeftJoinPairs(base, dim, join_columns, i + 1)

Merge(base, dim, join_columns) ==
    LET pairs == LeftJoinPairs(base, dim, join_columns, 1)
        rows == 1..Len(pairs)
        fromLeft == [c \in DOMAIN base.cols |->
                        Column(c.name, [p \in rows |-> c.vals[pairs[p][1]]])]
        left == [n |-> Len(pairs), cols |-> MapColumns(base.cols, fromLeft)]
        (* the columns of dim that are not join keys: "ID", unless joined on *)
        extra == ColumnLabels(dim) \ join_columns
        rightLabel(l) == IF l \in ColumnLabels(base)
                         THEN Suffixed(l, <<"", "", "">>) ELSE l
        rightVals(l) == [p \in rows |-> IF pairs[p][2] = 0 THEN Null
                                        ELSE Values(dim, l)[pairs[p][2]]]
        rightCols == {Column(rightLabel(l), rightVals(l)) : l \in extra}
    IN [left EXCEPT !.cols =
          [c \in DOMAIN left.cols \cup rightCols |->
              (IF c \in DOMAIN left.cols THEN left.cols[c] ELSE 0)
              + (IF c \in rightCols THEN 1 ELSE 0)]]

replace_columns_by_fk(base, dim, join_columns, fk_column_name) ==
    DropLabels(RenameLabel(Merge(base, dim, join_columns), ID___, fk_column_name),
               join_columns)

(***************************************************************************)
(* Python dict with its insertion order: the inner dictionaries of the     *)
(* index are iterated by rename_table, so their key order is state.        *)
(***************************************************************************)
ODEmpty == [keys |-> <<>>, val |-> <<>>]

ODHas(d, k) == k \in DOMAIN d.val

(* d[k] = v: a new key goes last, an existing key keeps its place *)
ODPut(d, k, v) ==
    [keys |-> IF ODHas(d, k) THEN d.keys ELSE Append(d.keys, k),
     val |-> Put(d.val, k, v)]

(* d.pop(k) for a key that is present *)
ODPop(d, k) ==
    [keys |-> SelectSeq(d.keys, LAMBDA x : x # k), val |-> Pop(d.val, k)]

(* defaultdict.__getitem__ on the inner dictionary *)
ODTouch(d, k, default) == IF ODHas(d, k) THEN d ELSE ODPut(d, k, default)

(***************************************************************************)
(* _ForeignKeyStateHandler                                                 *)
(* foreign_keys   : defaultdict(dict)            table -> column -> target *)
(* inverted_index : defaultdict(defaultdict(set)) table -> column -> set   *)
(* A key created by a defaultdict read is a key of the mapping.            *)
(***************************************************************************)
TableAndColumnName(table_name, column_name) ==
    [table_name |-> table_name, column_name |-> column_name]

EmptyDict == <<>>

Index(fk, inv) == [foreign_keys |-> fk, inverted_index |-> inv]

(* _ForeignKeyStateHandler.__init__ *)
EmptyIndex == Index(EmptyDict, EmptyDict)

(* d[t][c] = v on a defaultdict of dicts *)
Put2(d, t, c, v) ==
    LET d1 == Touch(d, t, ODEmpty)
    IN Put(d1, t, ODPut(d1[t], c, v))

(* d[t][c] read on defaultdict(lambda: defaultdict(set)) *)
Touch2(d, t, c) ==
    LET d1 == Touch(d, t, ODEmpty)
    IN Put(d1, t, ODTouch(d1[t], c, {}))

FK_add_foreign_key(idx, origin_table, origin_column, destination_table, destination_column) ==
    LET inv1 == Touch2(idx.inverted_index, destination_table, destination_column)
    IN Index(Put2(idx.foreign_keys, origin_table, origin_column,
                  TableAndColumnName(destination_table, destination_column)),
             Put2(inv1, destination_table, destination_column,
                  inv1[destination_table].val[destination_column]
                      \cup {TableAndColumnName(origin_table, origin_column)}))

FK_replace_in_inverted_index(inv, table, column, old_names, new_names) ==
    LET inv1 == Touch2(inv, table, column)
    IN Put2(inv1, table, column,
            (inv1[table].val[column] \ {old_names}) \cup {new_names})

(* for (affected_table, affected_column) in origins:
       foreign_keys[affected_table][affected_column] = target *)
RECURSIVE Retarget(_, _, _)
Retarget(fk, origins, target) ==
    IF origins = {} THEN fk
    ELSE LET o == CHOOSE x \in origins : TRUE
         IN Retarget(Put2(fk, o.table_name, o.column_name, target),
                     origins \ {o}, target)

(* variant: the forward entry is moved but the inverse set of its
   destination is left as it was *)
FK_rename_column_keeping_inverse(idx, table, old_name, new_name) ==
    LET fk0 == Touch(idx.foreign_keys, table, ODEmpty)
        isOrigin == ODHas(fk0[table], old_name)
        pointed == fk0[table].val[old_name]
        fk1 == IF isOrigin
               THEN Put(fk0, table,
                        ODPut(ODPop(fk0[table], old_name), new_name, pointed))
               ELSE fk0
        inv1 == Touch(idx.inverted_index, table, ODEmpty)
        inv2 == IF ODHas(inv1[table], old_name)
                THEN Put(inv1, table,
                         ODPut(ODPop(inv1[table], old_name), new_name,
                               inv1[table].val[old_name]))
                ELSE inv1
        inv3 == Touch2(inv2, table, new_name)
    IN Index(Retarget(fk1, inv3[table].val[new_name],
                      TableAndColumnName(table, new_name)),
             inv3)

FK_rename_column(idx, table, old_name, new_name) ==
    LET fk0 == Touch(idx.foreign_keys, table, ODEmpty)
        isOrigin == ODHas(fk0[table], old_name)
        pointed == fk0[table].val[old_name]
        fk1 == IF isOrigin
               THEN Put(fk0, table,
                        ODPut(ODPop(fk0[table], old_name), new_name, pointed))
               ELSE fk0
        inv0 == IF isOrigin
                THEN FK_replace_in_inverted_index(idx.inverted_index,
                        pointed.table_name, pointed.column_name,
                        TableAndColumnName(table, old_name),
                        TableAndColumnName(table, new_name))
                ELSE idx.inverted_index
        inv1 == Touch(inv0, table, ODEmpty)
        inv2 == IF ODHas(inv1[table], old_name)
                THEN Put(inv1, table,
                         ODPut(ODPop(inv1[table], old_name), new_name,
                               inv1[table].val[old_name]))
                ELSE inv1
        inv3 == Touch2(inv2, table, new_name)
    IN Index(Retarget(fk1, inv3[table].val[new_name],
                      TableAndColumnName(table, new_name)),
             inv3)

(* for pointing_column, (pointed_table, pointed_column) in
       foreign_keys[new_name].items(): __replace_in_inverted_index(...) *)
RECURSIVE ReplaceOrigins(_, _, _, _, _)
ReplaceOrigins(inv, outgoing, columns, old_name, new_name) ==
    IF columns = <<>> THEN inv
    ELSE LET c == Head(columns)
         IN ReplaceOrigins(
                FK_replace_in_inverted_index(inv,
                    outgoing.val[c].table_name, outgoing.val[c].column_name,
                    TableAndColumnName(old_name, c),
                    TableAndColumnName(new_name, c)),
                outgoing, Tail(columns), old_name, new_name)

(* for pointed_column, origins in inverted_index[new_name].items():
       for origin in origins: foreign_keys[origin] = (new_name, pointed_column) *)
RECURSIVE RetargetAll(_, _, _, _)
RetargetAll(fk, incoming, columns, new_name) ==
    IF columns = <<>> THEN fk
    ELSE LET c == Head(columns)
         IN RetargetAll(
                Retarget(fk, incoming.val[c], TableAndColumnName(new_name, c)),
                incoming, Tail(columns), new_name)

(* variant: the last loop is missing, so the origins that point at the
   renamed table keep the old name in the forward map *)
FK_rename_table_without_retarget(idx, old_name, new_name) ==
    LET fk1 == IF old_name \in DOMAIN idx.foreign_keys
               THEN Put(Pop(idx.foreign_keys, old_name), new_name,
                        idx.foreign_keys[old_name])
               ELSE idx.foreign_keys
        fk2 == Touch(fk1, new_name, ODEmpty)
        inv1 == ReplaceOrigins(idx.inverted_index, fk2[new_name],
                               fk2[new_name].keys, old_name, new_name)
        inv2 == Put(Pop(inv1, old_name), new_name, inv1[old_name])
    IN IF old_name \notin DOMAIN inv1
       THEN [index |-> Index(fk2, inv1), err |-> "KeyError"]
       ELSE [index |-> Index(fk2, inv2), err |-> "none"]

(* the result also says whether inverted_index.pop(old_name) raised KeyError,
   which leaves the first two steps applied *)
FK_rename_table(idx, old_name, new_name) ==
    LET fk1 == IF old_name \in DOMAIN idx.foreign_keys
               THEN Put(Pop(idx.foreign_keys, old_name), new_name,
                        idx.foreign_keys[old_name])
               ELSE idx.foreign_keys
        fk2 == Touch(fk1, new_name, ODEmpty)
        inv1 == ReplaceOrigins(idx.inverted_index, fk2[new_name],
                               fk2[new_name].keys, old_name, new_name)
        inv2 == Put(Pop(inv1, old_name), new_name, inv1[old_name])
    IN IF old_name \notin DOMAIN inv1
       THEN [index |-> Index(fk2, inv1), err |-> "KeyError"]
       ELSE [index |-> Index(RetargetAll(fk2, inv2[new_name],
                                         inv2[new_name].keys, new_name),
                             inv2),
             err |-> "none"]

(* sqlalchemy ForeignKey(f"{pointed_table}.{pointed_column}") *)
ForeignKey(pointed_table, pointed_column) ==
    <<pointed_table, ".", pointed_column>>

FK_get_foreign_keys(idx) ==
    [t \in DOMAIN idx.foreign_keys |->
        [c \in DOMAIN idx.foreign_keys[t].val |->
            ForeignKey(idx.foreign_keys[t].val[c].table_name,
                       idx.foreign_keys[t].val[c].column_name)]]

(***************************************************************************)
(* NormalizationHandler: the operations as functions of the state          *)
(* (table_state, foreign_key_handler); each returns the state the call     *)
(* leaves behind and the exception it raised ("none" when it returned).    *)
(***************************************************************************)
Outcome(ts, idx, err) == [table_state |-> ts, index |-> idx, err |-> err]

(* variant: f"ID_{new_table_name.split('_')[-1]}" *)
DefaultColumnName_last_segment(new_table_name) ==
    <<"ID", new_table_name[Len(new_table_name)]>>

(* f"ID_{new_table_name.split('_', 1)[-1]}" *)
DefaultColumnName(new_table_name) ==
    <<"ID">> \o (IF Len(new_table_name) > 1 THEN Tail(new_table_name)
                 ELSE new_table_name)

(* variant: the relation is registered before the columns are looked up *)
NH_extract_new_table_registering_first(ts, idx, from_table, columns, new_table_name, new_column_name) ==
    LET fk_name == IF new_column_name = None
                   THEN DefaultColumnName(new_table_name)
                   ELSE new_column_name
        base_df == ts[from_table]
        new_table == extract_table(base_df, columns)
        substituted_table ==
            replace_columns_by_fk(base_df, new_table, columns, fk_name)
    IN IF from_table \notin DOMAIN ts
       THEN Outcome(ts, idx, "KeyError")
       ELSE IF \E c \in columns : c \notin ColumnLabels(base_df)
       THEN Outcome(ts,
                    FK_add_foreign_key(idx, from_table, fk_name, new_table_name, ID),
                    "KeyError")
       ELSE IF \E c \in columns : Multiplicity(base_df, c) > 1
       THEN Outcome(ts, idx, "ValueError")
       ELSE Outcome(Put(Put(ts, from_table, substituted_table),
                        new_table_name, new_table),
                    FK_add_foreign_key(idx, from_table, fk_name, new_table_name, ID),
                    "none")

(* variant: the columns are taken from the dataset given at construction *)
NH_extract_new_table_from_original(ts, idx, from_table, columns, new_table_name, new_column_name) ==
    LET fk_name == IF new_column_name = None
                   THEN DefaultColumnName(new_table_name)
                   ELSE new_column_name
        base_df == IF from_table \in DOMAIN original_named_dataframes
                   THEN original_named_dataframes[from_table]
                   ELSE ts[from_table]
        new_table == extract_table(base_df, columns)
        substituted_table ==
            replace_columns_by_fk(base_df, new_table, columns, fk_name)
    IN IF from_table \notin DOMAIN ts
       THEN Outcome(ts, idx, "KeyError")
       ELSE IF \E c \in columns : c \notin ColumnLabels(base_df)
       THEN Outcome(ts, idx, "KeyError")
       ELSE IF \E c \in columns : Multiplicity(base_df, c) > 1
       THEN Outcome(ts, idx, "ValueError")
       ELSE Outcome(Put(Put(ts, from_table, substituted_table),
                        new_table_name, new_table),
                    FK_add_foreign_key(idx, from_table, fk_name, new_table_name, ID),
                    "none")

(* variant: an entry already stored under new_table_name is kept *)
NH_extract_new_table_keeping_existing(ts, idx, from_table, columns, new_table_name, new_column_name) ==
    LET fk_name == IF new_column_name = None
                   THEN DefaultColumnName(new_table_name)
                   ELSE new_column_name
        base_df == ts[from_table]
        new_table == extract_table(base_df, columns)
        substituted_table ==
            replace_columns_by_fk(base_df, new_table, columns, fk_name)
    IN IF from_table \notin DOMAIN ts
       THEN Outcome(ts, idx, "KeyError")
       ELSE IF \E c \in columns : c \notin ColumnLabels(base_df)
       THEN Outcome(ts, idx, "KeyError")
       ELSE IF \E c \in columns : Multiplicity(base_df, c) > 1
       THEN Outcome(ts, idx, "ValueError")
       ELSE Outcome(IF new_table_name \in DOMAIN ts
                    THEN Put(ts, from_table, substituted_table)
                    ELSE Put(Put(ts, from_table, substituted_table),
                             new_table_name, new_table),
                    FK_add_foreign_key(idx, from_table, fk_name, new_table_name, ID),
                    "none")

NH_extract_new_table(ts, idx, from_table, columns, new_table_name, new_column_name) ==
    LET fk_name == IF new_column_name = None
                   THEN DefaultColumnName(new_table_name)
                   ELSE new_column_name
        base_df == ts[from_table]
        new_table == extract_table(base_df, columns)
        substituted_table ==
            replace_columns_by_fk(base_df, new_table, columns, fk_name)
    IN IF from_table \notin DOMAIN ts
       THEN Outcome(ts, idx, "KeyError")
       ELSE IF \E c \in columns : c \notin ColumnLabels(base_df)
       THEN Outcome(ts, idx, "KeyError")
       ELSE IF \E c \in columns : Multiplicity(base_df, c) > 1
       THEN Outcome(ts, idx, "ValueError")
       ELSE Outcome(Put(Put(ts, from_table, substituted_table),
                        new_table_name, new_table),
                    FK_add_foreign_key(idx, from_table, fk_name, new_table_name, ID),
                    "none")

NH_rename_table(ts, idx, old_name, new_name) ==
    IF old_name \notin DOMAIN ts
    THEN Outcome(ts, idx, "KeyError")
    ELSE LET r == FK_rename_table(idx, old_name, new_name)
         IN Outcome(Put(Pop(ts, old_name), new_name, ts[old_name]),
                    r.index, r.err)

(* variant: the index is renamed before the column is looked up *)
NH_rename_column_unchecked(ts, idx, table, old_name, new_name) ==
    IF table \notin DOMAIN ts
    THEN Outcome(ts, idx, "KeyError")
    ELSE IF old_name \notin ColumnLabels(ts[table])
    THEN Outcome(ts, FK_rename_column(idx, table, old_name, new_name), "KeyError")
    ELSE Outcome(Put(ts, table, RenameLabel(ts[table], old_name, new_name)),
                 FK_rename_column(idx, table, old_name, new_name),
                 "none")

NH_rename_column(ts, idx, table, old_name, new_name) ==
    IF table \notin DOMAIN ts
    THEN Outcome(ts, idx, "KeyError")
    ELSE IF old_name \notin ColumnLabels(ts[table])
    THEN Outcome(ts, idx, "KeyError")
    ELSE Outcome(Put(ts, table, RenameLabel(ts[table], old_name, new_name)),
                 FK_rename_column(idx, table, old_name, new_name),
                 "none")

(* __initialize_state *)
initialize_state(dataframes) == Outcome(dataframes, EmptyIndex, "none")

(* variant: the left operand wins on a common key *)
DictUnion_left_wins(a, b) ==
    [k \in DOMAIN a \cup DOMAIN b |-> IF k \in DOMAIN a THEN a[k] ELSE b[k]]

(* dict | dict: the right operand wins on a common key *)
DictUnion(a, b) ==
    [k \in DOMAIN a \cup DOMAIN b |-> IF k \in DOMAIN b THEN b[k] ELSE a[k]]

(* dict.get(key, {}) *)
GetOrEmpty(d, k) == IF k \in DOMAIN d THEN d[k] ELSE EmptyDict

(* __entry_to_pdf *)
PushableDF(df, table_name, coltypes, constraints, foreign_keys) ==
    [df |-> df, table_name |-> table_name, coltypes |-> coltypes,
     constraints |-> constraints, foreign_keys |-> foreign_keys]

(* to_pushable_dataframes: one PushableDF per key of table_state (the order
   of the returned list is not modelled) *)
to_pushable_dataframes(ts, idx, coltypes, constraints, foreign_keys) ==
    LET all_foreign_keys == FK_get_foreign_keys(idx)
    IN {PushableDF(ts[table_name], table_name,
                   GetOrEmpty(coltypes, table_name),
                   GetOrEmpty(constraints, table_name),
                   DictUnion(GetOrEmpty(all_foreign_keys, table_name),
                             GetOrEmpty(foreign_keys, table_name)))
        : table_name \in DOMAIN ts}

(***************************************************************************)
(* Inputs                                                                  *)
(***************************************************************************)
(* the frame of tests/test_normalization_handling.py, as in the
   deduplication scenario: ID, CO, TXT *)
ScenarioFrame ==
    DataFrame(5, (ID :> <<1, 2, 3, 4, 5>>) @@ (CO :> <<1, 1, 1, 2, 5>>)
                 @@ (TXT :> <<Juan, Juan, Juan, Juan, Juan2>>))

(* a frame with rows that are NaN on some or on all of CO, TXT *)
SparseFrame ==
    DataFrame(4, (ID :> <<1, 2, 3, 4>>) @@ (CO :> <<1, Null, Null, 1>>)
                 @@ (TXT :> <<Juan, Null, Juan, Null>>))

InitialFrames == {ScenarioFrame, SparseFrame}

FromTables == {FACT, DIM_NAME}
ColumnSets == {{TXT}, {CO}, {CO, TXT}}
NewTableNames == {FACT, DIM_NAME, DIM_CO}
NewColumnNames == {None, ID}
OldTableNames == {FACT, DIM_NAME, DIM_CO}
NewNamesForTables == {DIM_CO, STAGE}
TablesOfColumns == {FACT, DIM_NAME}
OldColumnNames == {ID, ID_NAME}
NewNamesForColumns == {K, ID}

(* the foreign_keys argument of to_pushable_dataframes: none, or overrides
   for two columns of FACT *)
ForeignKeyOverrides ==
    {EmptyDict,
     (FACT :> ((ID :> ForeignKey(STAGE, ID)) @@ (K :> ForeignKey(STAGE, K))))}

(***************************************************************************)
(* The state machine: one action per public method                         *)
(***************************************************************************)
NoPrior ==
    [op |-> "init", table |-> None, columns |-> {}, new_table_name |-> None,
     new_column_name |-> None, err |-> "none"]

NoCall ==
    [op |-> "init", table |-> None, columns |-> {}, old_name |-> None,
     new_name |-> None, new_table_name |-> None, new_column_name |-> None,
     err |-> "none", pre_table_state |-> EmptyDict, pre_index |-> EmptyIndex,
     given_column_name |-> None, foreign_keys |-> EmptyDict, returned |-> {},
     prior |-> NoPrior]

(* what is kept of the call before the last one: the arguments of an
   extraction that returned, that it was a reset, and otherwise only its
   exception *)
Summary(call) ==
    IF call.op = "extract_new_table" /\ call.err = "none"
    THEN [op |-> call.op, table |-> call.table, columns |-> call.columns,
          new_table_name |-> call.new_table_name,
          new_column_name |-> call.new_column_name, err |-> call.err]
    ELSE IF call.op = "reset_state"
    THEN [NoPrior EXCEPT !.op = call.op]
    ELSE [NoPrior EXCEPT !.op = "other", !.err = call.err]

Call(op) ==
    [NoCall EXCEPT !.op = op, !.pre_table_state = table_state,
                   !.pre_index = foreign_key_handler,
                   !.prior = Summary(last)]

(* last records the call just made, its arguments, its exception, what it
   returned, the state it started from and the call before it;
   dimension_tables is the history of which entries of table_state
   were stored as the new table of an extraction *)
Commit(r, call, dims) ==
    /\ ops < MaxOps
    /\ ops' = ops + 1
    /\ table_state' = r.table_state
    /\ foreign_key_handler' = r.index
    /\ last' = [call EXCEPT !.err = r.err]
    /\ dimension_tables' = dims
    /\ UNCHANGED <<original_named_dataframes, inference, threads, query>>

(* no column has been given to the type inference, no thread runs on the
   index, no query has been built *)
NoInference == <<>>

NoThreads == <<>>

NoQuery == <<>>

(* NormalizationHandler.__init__ *)
Init ==
    /\ \E df \in InitialFrames : original_named_dataframes = (FACT :> df)
    /\ table_state = initialize_state(original_named_dataframes).table_state
    /\ foreign_key_handler = initialize_state(original_named_dataframes).index
    /\ last = NoCall
    /\ dimension_tables = {}
    /\ ops = 0
    /\ inference = NoInference
    /\ threads = NoThreads
    /\ query = NoQuery

(* variant: the tables are kept, only the index is renewed *)
reset_state_keeping_tables ==
    Commit(Outcome(table_state, EmptyIndex, "none"), Call("reset_state"), {})

(* variant: the tables are restored, the index is kept *)
reset_state_keeping_index ==
    Commit(Outcome(original_named_dataframes, foreign_key_handler, "none"),
           Call("reset_state"), {})

reset_state ==
    Commit(initialize_state(original_named_dataframes), Call("reset_state"), {})

extract_new_table ==
    \E from_table \in FromTables, columns \in ColumnSets,
       new_table_name \in NewTableNames, new_column_name \in NewColumnNames :
        LET r == NH_extract_new_table(table_state, foreign_key_handler,
                      from_table, columns, new_table_name, new_column_name)
        IN Commit(r,
                  [Call("extract_new_table") EXCEPT
                       !.table = from_table, !.columns = columns,
                       !.new_table_name = new_table_name,
                       !.given_column_name = new_column_name,
                       !.new_column_name =
                           IF new_column_name = None
                           THEN DefaultColumnName(new_table_name)
                           ELSE new_column_name],
                  IF r.err = "none"
                  THEN (dimension_tables \ {from_table}) \cup {new_table_name}
                  ELSE dimension_tables)

rename_table ==
    \E old_name \in OldTableNames, new_name \in NewNamesForTables :
        Commit(NH_rename_table(table_state, foreign_key_handler, old_name, new_name),
               [Call("rename_table") EXCEPT
                    !.old_name = old_name, !.new_name = new_name],
               IF old_name \in DOMAIN table_state
               THEN (dimension_tables \ {old_name, new_name})
                    \cup (IF old_name \in dimension_tables THEN {new_name} ELSE {})
               ELSE dimension_tables)

rename_column ==
    \E table \in TablesOfColumns, old_name \in OldColumnNames,
       new_name \in NewNamesForColumns :
        Commit(NH_rename_column(table_state, foreign_key_handler, table,
                                old_name, new_name),
               [Call("rename_column") EXCEPT
                    !.table = table, !.old_name = old_name, !.new_name = new_name],
               dimension_tables)

(* to_pushable_dataframes(foreign_keys=...): reads the state, returns the
   records *)
export_pushable_dataframes ==
    \E foreign_keys \in ForeignKeyOverrides :
        Commit(Outcome(table_state, foreign_key_handler, "none"),
               [Call("to_pushable_dataframes") EXCEPT
                    !.foreign_keys = foreign_keys,
                    !.returned =
                        to_pushable_dataframes(table_state, foreign_key_handler,
                                               EmptyDict, EmptyDict, foreign_keys)],
               dimension_tables)

Next ==
    \/ reset_state
    \/ extract_new_table
    \/ rename_table
    \/ rename_column
    \/ export_pushable_dataframes

Spec == Init /\ [][Next]_vars

(***************************************************************************)
(* The naming of the foreign-key column: extract_new_table from FACT with  *)
(* every table name of up to MaxSegments underscore-separated segments     *)
(***************************************************************************)
TableNames == UNION {[1..n -> Segments] : n \in 1..MaxSegments}

extract_new_table_named ==
    \E new_table_name \in TableNames, new_column_name \in NewColumnNames :
        LET r == NH_extract_new_table(table_state, foreign_key_handler,
                      FACT, {TXT}, new_table_name, new_column_name)
        IN /\ ops < MaxNamingOps
           /\ Commit(r,
                  [Call("extract_new_table") EXCEPT
                       !.table = FACT, !.columns = {TXT},
                       !.new_table_name = new_table_name,
                       !.given_column_name = new_column_name,
                       !.new_column_name =
                           IF new_column_name = None
                           THEN DefaultColumnName(new_table_name)
                           ELSE new_column_name],
                  IF r.err = "none"
                  THEN (dimension_tables \ {FACT}) \cup {new_table_name}
                  ELSE dimension_tables)

NextNaming == extract_new_table_named

SpecNaming == Init /\ [][NextNaming]_vars

(***************************************************************************)
(* Vocabulary of the properties                                            *)
(***************************************************************************)
(* the forward map as a set of pairs <<origin, destination>> *)
FwdRel(idx) ==
    UNION {{<<TableAndColumnName(t, c), idx.foreign_keys[t].val[c]>>
                : c \in DOMAIN idx.foreign_keys[t].val}
            : t \in DOMAIN idx.foreign_keys}

(* the inverted index as a set of pairs <<origin, destination>> *)
InvRel(idx) ==
    UNION {UNION {{<<o, TableAndColumnName(t, c)>>
                      : o \in idx.inverted_index[t].val[c]}
                   : c \in DOMAIN idx.inverted_index[t].val}
            : t \in DOMAIN idx.inverted_index}

(* a relation of the index: held by both views *)
Relations(idx) == FwdRel(idx) \cap InvRel(idx)

(* the two maps as Python compares them: key order does not count *)
Maps(idx) ==
    [foreign_keys |->
        [t \in DOMAIN idx.foreign_keys |-> idx.foreign_keys[t].val],
     inverted_index |->
        [t \in DOMAIN idx.inverted_index |-> idx.inverted_index[t].val]]

TableInUse(ts, idx, name) ==
    \/ name \in DOMAIN ts
    \/ name \in DOMAIN idx.foreign_keys
    \/ name \in DOMAIN idx.inverted_index
    \/ \E rel \in FwdRel(idx) \cup InvRel(idx) :
          rel[1].table_name = name \/ rel[2].table_name = name

ColumnInUse(ts, idx, table, name) ==
    \/ table \in DOMAIN ts /\ name \in ColumnLabels(ts[table])
    \/ table \in DOMAIN idx.foreign_keys
          /\ name \in DOMAIN idx.foreign_keys[table].val
    \/ table \in DOMAIN idx.inverted_index
          /\ name \in DOMAIN idx.inverted_index[table].val
    \/ \E rel \in FwdRel(idx) \cup InvRel(idx) :
          TableAndColumnName(table, name) \in {rel[1], rel[2]}

IsSource(idx, t) == \E rel \in Relations(idx) : rel[1].table_name = t
IsTarget(idx, t) == \E rel \in Relations(idx) : rel[2].table_name = t

(* a name pair after the table old is renamed to new *)
RenT(x, old, new) ==
    IF x.table_name = old THEN TableAndColumnName(new, x.column_name) ELSE x

(* a name pair after the column old of table is renamed to new *)
RenC(x, table, old, new) ==
    IF x = TableAndColumnName(table, old)
    THEN TableAndColumnName(table, new) ELSE x

PreIndex == last.pre_index
PreTables == last.pre_table_state

RenameTableRan ==
    /\ last.op = "rename_table"
    /\ last.old_name \in DOMAIN PreTables

(***************************************************************************)
(* C1..C8: the foreign-key index under renames                             *)
(***************************************************************************)
(* C1: in every state the forward map and the inverted index hold the same
   relations: (t,c) -> (t2,c2) is in forward iff (t,c) is a member of
   inverse[t2][c2]. *)
C1_BidirectionalConsistency ==
    FwdRel(foreign_key_handler) = InvRel(foreign_key_handler)

(* C2: rename_table(old, new) raises KeyError iff old is not a key of
   table_state; for every present old it returns, table_state[new] is the
   dataset that was under old, and old is no longer a key. *)
C2_RenameTableFailsIffAbsent ==
    last.op = "rename_table" =>
        /\ (last.err = "KeyError") <=> (last.old_name \notin DOMAIN PreTables)
        /\ last.old_name \in DOMAIN PreTables =>
              /\ last.err = "none"
              /\ last.new_name \in DOMAIN table_state
              /\ table_state[last.new_name] = PreTables[last.old_name]
              /\ last.old_name # last.new_name =>
                    last.old_name \notin DOMAIN table_state

(* C3: when rename_table or rename_column raises, table_state and both maps
   of the index are as they were before the call. *)
C3_RenameNeverPartial ==
    (last.op \in {"rename_table", "rename_column"} /\ last.err # "none") =>
        /\ table_state = PreTables
        /\ foreign_key_handler = PreIndex

(* C4: after rename_table(old, new) of a table that is both a relation source
   and a relation target, new not in use before, every relation with old at
   either end is held, with old replaced by new, by the forward map and by
   the inverted index. *)
C4_RenameTablePropagates ==
    (/\ RenameTableRan
     /\ last.old_name # last.new_name
     /\ IsSource(PreIndex, last.old_name)
     /\ IsTarget(PreIndex, last.old_name)
     /\ ~TableInUse(PreTables, PreIndex, last.new_name))
    => /\ last.err = "none"
       /\ \A rel \in Relations(PreIndex) :
            last.old_name \in {rel[1].table_name, rel[2].table_name} =>
                LET moved == <<RenT(rel[1], last.old_name, last.new_name),
                               RenT(rel[2], last.old_name, last.new_name)>>
                IN /\ moved \in Relations(foreign_key_handler)
                   /\ rel \notin FwdRel(foreign_key_handler)
                   /\ rel \notin InvRel(foreign_key_handler)

C4_Witness ==
    /\ RenameTableRan
    /\ last.err = "none"
    /\ last.old_name # last.new_name
    /\ IsSource(PreIndex, last.old_name)
    /\ IsTarget(PreIndex, last.old_name)
    /\ \E rel \in Relations(PreIndex) :
          rel[1].table_name # last.old_name /\ rel[2].table_name = last.old_name
    /\ ~TableInUse(PreTables, PreIndex, last.new_name)

(* C5: for a table A of table_state and a name B not in use, rename_table(A, B)
   followed by rename_table(B, A) returns both times and gives back the
   forward map, the inverted index and the key set of table_state. *)
C5_RenameRoundTrip ==
    (/\ RenameTableRan
     /\ last.old_name # last.new_name
     /\ ~TableInUse(PreTables, PreIndex, last.new_name))
    => LET back == NH_rename_table(table_state, foreign_key_handler,
                                   last.new_name, last.old_name)
       IN /\ last.err = "none"
          /\ back.err = "none"
          /\ Maps(back.index) = Maps(PreIndex)
          /\ DOMAIN back.table_state = DOMAIN PreTables

HasNoRelations(idx, t) ==
    \A rel \in FwdRel(idx) \cup InvRel(idx) :
        rel[1].table_name # t /\ rel[2].table_name # t

(* C6: the index's rename_table(old, new) for a table without relations in
   either direction raises nothing and leaves both maps with the relations
   they had. *)
C6_RenameUnrelatedTableIsNoOp ==
    (RenameTableRan /\ HasNoRelations(PreIndex, last.old_name)) =>
        /\ last.err = "none"
        /\ FwdRel(foreign_key_handler) = FwdRel(PreIndex)
        /\ InvRel(foreign_key_handler) = InvRel(PreIndex)

RenameColumnRan ==
    /\ last.op = "rename_column"
    /\ last.err = "none"
    /\ last.old_name # last.new_name
    /\ ~ColumnInUse(PreTables, PreIndex, last.table, last.new_name)

(* C7: after rename_column(table, old, new), new not in use before: a relation
   whose origin was (table, old) now has origin (table, new) in both views
   and the inverse set of its destination no longer holds (table, old); a
   relation whose destination was (table, old) now has destination
   (table, new) in both views, and the inverted index has no key old left
   for the table. *)
C7_RenameColumnPropagates ==
    RenameColumnRan =>
        LET o == TableAndColumnName(last.table, last.old_name)
            n == TableAndColumnName(last.table, last.new_name)
            ren(x) == RenC(x, last.table, last.old_name, last.new_name)
        IN /\ \A rel \in Relations(PreIndex) : rel[1] = o =>
                /\ <<n, ren(rel[2])>> \in Relations(foreign_key_handler)
                /\ <<o, ren(rel[2])>> \notin InvRel(foreign_key_handler)
           /\ \A rel \in Relations(PreIndex) : rel[2] = o =>
                /\ <<ren(rel[1]), n>> \in Relations(foreign_key_handler)
                /\ last.old_name \notin
                      DOMAIN foreign_key_handler.inverted_index[last.table].val

C7_Witness ==
    /\ RenameColumnRan
    /\ \E rel \in Relations(PreIndex) :
          /\ rel[1] = TableAndColumnName(last.table, last.old_name)
          /\ rel[2].table_name # last.table
    /\ \E rel \in Relations(PreIndex) :
          /\ rel[2] = TableAndColumnName(last.table, last.old_name)
          /\ rel[1].table_name # last.table

(* C8: after rename_table(old, new) with old # new has returned, old is no
   key of table_state, no table key of either map, no table of a forward
   destination or of a member of an inverse set, and no exported record has
   old as its table name or as the target of a foreign key. *)
C8_NoDanglingOldNames ==
    (RenameTableRan /\ last.err = "none" /\ last.old_name # last.new_name) =>
        /\ ~TableInUse(table_state, foreign_key_handler, last.old_name)
        /\ \A pdf \in to_pushable_dataframes(table_state, foreign_key_handler,
                                             EmptyDict, EmptyDict, EmptyDict) :
              /\ pdf.table_name # last.old_name
              /\ \A c \in DOMAIN pdf.foreign_keys :
                    pdf.foreign_keys[c][1] # last.old_name

(***************************************************************************)
(* C9, C10: the dimension dataset                                          *)
(***************************************************************************)
ExtractionRan ==
    /\ last.op = "extract_new_table"
    /\ last.err = "none"

(* the combinations of values of cols in df, rows NaN on all of cols aside *)
Combinations(df, cols) ==
    {ProjectedRow(df, cols, i) :
        i \in {j \in 1..df.n : \E c \in cols : Values(df, c)[j] # Null}}

(* the first row of df that holds the combination r *)
FirstOccurrence(df, cols, r) ==
    CHOOSE i \in 1..df.n :
        /\ ProjectedRow(df, cols, i) = r
        /\ \A j \in 1..(i - 1) : ProjectedRow(df, cols, j) # r

(* the rows of dim are the combinations of cols in source, each once, in the
   order in which they first occur *)
OneRowPerCombination(dim, source, cols) ==
    /\ dim.n = Cardinality(Combinations(source, cols))
    /\ {ProjectedRow(dim, cols, k) : k \in 1..dim.n} = Combinations(source, cols)
    /\ \A k1, k2 \in 1..dim.n :
          k1 < k2 => FirstOccurrence(source, cols, ProjectedRow(dim, cols, k1))
                       < FirstOccurrence(source, cols, ProjectedRow(dim, cols, k2))

(* the bag of columns without one occurrence of column c *)
WithoutOne(cols, c) ==
    IF cols[c] = 1 THEN Restrict(cols, DOMAIN cols \ {c})
    ELSE [cols EXCEPT ![c] = @ - 1]

(* df is source with the columns cols replaced by one column labelled fk *)
ReplacedByOneColumn(df, source, cols, fk) ==
    /\ df.n = source.n
    /\ \E c \in DOMAIN df.cols :
          /\ c.name = fk
          /\ WithoutOne(df.cols, c) = DropLabels(source, cols).cols

ExpectedFACT ==
    DataFrame(5, (ID :> <<1, 2, 3, 4, 5>>) @@ (CO :> <<1, 1, 1, 2, 5>>)
                 @@ (ID_NAME :> <<1, 1, 1, 1, 2>>))

ExpectedDIM_NAME ==
    DataFrame(2, (ID :> <<1, 2>>) @@ (TXT :> <<Juan, Juan2>>))

(* C9: extract_new_table(T, cols, D), T # D, leaves under D one row per
   combination of cols values of T (rows NaN on all of cols aside) in order
   of first occurrence, leaves under T the old T with cols replaced by one
   column named as the foreign key, and registers (T, fk) -> (D, ID); the
   FACT scenario yields DIM_NAME = {ID:[1,2], TXT:[Juan,Juan2]} and
   FACT = {ID, CO, ID_NAME:[1,1,1,1,2]}. *)
C9_DeduplicationCorrectness ==
    (ExtractionRan /\ last.table # last.new_table_name) =>
        LET source == PreTables[last.table]
            dim == table_state[last.new_table_name]
        IN /\ ColumnLabels(dim) = last.columns \cup {ID}
           /\ OneRowPerCombination(dim, source, last.columns)
           /\ ReplacedByOneColumn(table_state[last.table], source,
                                  last.columns, last.new_column_name)
           /\ <<TableAndColumnName(last.table, last.new_column_name),
                TableAndColumnName(last.new_table_name, ID)>>
                 \in Relations(foreign_key_handler)
           /\ (/\ PreTables = (FACT :> ScenarioFrame)
               /\ last.columns = {TXT}
               /\ last.new_table_name = DIM_NAME
               /\ last.new_column_name = ID_NAME)
              => table_state = (FACT :> ExpectedFACT) @@ (DIM_NAME :> ExpectedDIM_NAME)

(* the column "ID" of df holds 1..N, N the number of rows *)
HasSurrogateKey(df) ==
    /\ ID \in ColumnLabels(df)
    /\ Multiplicity(df, ID) = 1
    /\ Values(df, ID) = [k \in 1..df.n |-> k]

(* C10 as stated: in every state, every entry of table_state that was stored
   as the new table of an extraction has the column "ID" with values 1..N. *)
C10_DimensionsKeepSurrogateKey ==
    \A d \in dimension_tables :
        d \in DOMAIN table_state /\ HasSurrogateKey(table_state[d])

(* C10 amended: when extract_new_table(T, cols, D) returns, the dataset under
   D has the column "ID" with values 1..N, and its k-th row holds the k-th
   combination of cols values of T in order of first occurrence. *)
C10_SurrogateKeyAfterExtraction ==
    ExtractionRan =>
        /\ HasSurrogateKey(table_state[last.new_table_name])
        /\ OneRowPerCombination(table_state[last.new_table_name],
                                PreTables[last.table], last.columns)

C10_Witness ==
    /\ ExtractionRan
    /\ table_state[last.new_table_name].n >= 3
    /\ PreTables[last.table].n > table_state[last.new_table_name].n
    /\ \E i \in 1..PreTables[last.table].n : \A c \in last.columns :
          Values(PreTables[last.table], c)[i] = Null

(***************************************************************************)
(* C11..C13: the updated source dataset                                    *)
(***************************************************************************)
(* an extraction returned and its new table is not its source *)
SourceExtractionRan ==
    /\ ExtractionRan
    /\ last.table # last.new_table_name

SourceBefore == PreTables[last.table]
SourceAfter == table_state[last.table]
Dimension == table_state[last.new_table_name]

(* the columns of df that source without cols does not account for: the
   column the extraction added (at most one column satisfies this) *)
NewColumns(df, source, cols) ==
    {c \in DOMAIN df.cols : WithoutOne(df.cols, c) = DropLabels(source, cols).cols}

(* the rows of dim whose surrogate key is v *)
RowsWithKey(dim, v) == {k \in 1..dim.n : Values(dim, ID)[k] = v}

(* C11: after extract_new_table(T, cols, D), T # D, the dataset under T has
   the rows of the old T in their order and one added column (named as the
   foreign key when the old T had a column "ID"); every value of that column
   that is not NaN is the ID of exactly one row of D, and that row holds the
   cols values that the same row of T held before the call. *)
C11_ReferentialIntegrity ==
    SourceExtractionRan =>
        /\ SourceAfter.n = SourceBefore.n
        /\ NewColumns(SourceAfter, SourceBefore, last.columns) # {}
        /\ \A c \in NewColumns(SourceAfter, SourceBefore, last.columns) :
              /\ ID \in ColumnLabels(SourceBefore)
                    => c.name = last.new_column_name
              /\ \A i \in 1..SourceAfter.n :
                    c.vals[i] # Null =>
                        /\ Cardinality(RowsWithKey(Dimension, c.vals[i])) = 1
                        /\ \A k \in RowsWithKey(Dimension, c.vals[i]) :
                              ProjectedRow(Dimension, last.columns, k)
                                = ProjectedRow(SourceBefore, last.columns, i)

(* an extraction whose source rows point to at least two different rows of
   the new table, some row of the source sharing its target with another *)
C11_Witness ==
    /\ SourceExtractionRan
    /\ Dimension.n >= 2
    /\ Dimension.n < SourceBefore.n
    /\ \E c \in NewColumns(SourceAfter, SourceBefore, last.columns) :
          \E i, j \in 1..SourceAfter.n :
              /\ c.vals[i] # Null /\ c.vals[j] # Null
              /\ c.vals[i] # c.vals[j]

AllNull(df, cols, i) == \A l \in cols : Values(df, l)[i] = Null

(* C12: after extract_new_table(T, cols, D), T # D, no row of D is NaN on
   all of cols, and the added column of T is NaN in exactly the rows that
   were NaN on every column of cols: a row NaN on only some of them has a
   foreign key. *)
C12_NullRowExclusion ==
    SourceExtractionRan =>
        /\ \A k \in 1..Dimension.n : ~AllNull(Dimension, last.columns, k)
        /\ NewColumns(SourceAfter, SourceBefore, last.columns) # {}
        /\ \A c \in NewColumns(SourceAfter, SourceBefore, last.columns) :
              \A i \in 1..SourceBefore.n :
                  (c.vals[i] = Null) <=> AllNull(SourceBefore, last.columns, i)

(* an extraction of two columns from a source with a row NaN on both and a
   row NaN on one of them only *)
C12_Witness ==
    /\ SourceExtractionRan
    /\ Cardinality(last.columns) = 2
    /\ \E i \in 1..SourceBefore.n : AllNull(SourceBefore, last.columns, i)
    /\ \E i \in 1..SourceBefore.n :
          /\ ~AllNull(SourceBefore, last.columns, i)
          /\ \E l \in last.columns : Values(SourceBefore, l)[i] = Null
          /\ \E c \in NewColumns(SourceAfter, SourceBefore, last.columns) :
                c.vals[i] # Null

(* C13: after extract_new_table(T, cols, D, fk) returned, T # D, the dataset
   under T has a column named fk (or the default name), none of cols, every
   other column it had, and the origin of the registered relation
   (T, fk) -> (D, ID) is a column of T. *)
C13_SourceGetsForeignKeyColumn ==
    SourceExtractionRan =>
        /\ last.new_column_name \in ColumnLabels(SourceAfter)
        /\ ColumnLabels(SourceAfter) \cap last.columns = {}
        /\ ColumnLabels(SourceBefore) \ last.columns \subseteq ColumnLabels(SourceAfter)
        /\ last.table \in DOMAIN foreign_key_handler.foreign_keys
        /\ \A c \in DOMAIN foreign_key_handler.foreign_keys[last.table].val :
              foreign_key_handler.foreign_keys[last.table].val[c]
                    = TableAndColumnName(last.new_table_name, ID)
                => c \in ColumnLabels(SourceAfter)

(***************************************************************************)
(* C14: the name of the foreign-key column                                 *)
(***************************************************************************)
(* the extraction registered (T, name) -> (D, ID) and, T # D, labelled the
   column it added to T with name (the label is the matter of C13 when the
   old T had no column "ID") *)
NamedForeignKey(name) ==
    /\ last.table \in DOMAIN foreign_key_handler.foreign_keys
    /\ name \in DOMAIN foreign_key_handler.foreign_keys[last.table].val
    /\ foreign_key_handler.foreign_keys[last.table].val[name]
          = TableAndColumnName(last.new_table_name, ID)
    /\ (last.table # last.new_table_name /\ ID \in ColumnLabels(SourceBefore))
          => name \in ColumnLabels(SourceAfter)

(* what remains of a name after its first segment and the underscore that
   follows it: nothing (the empty string) when there is no underscore *)
StripFirstSegment(name) == IF Len(name) > 1 THEN Tail(name) ELSE <<"">>

(* C14 as stated: the foreign-key column is named new_column_name when that
   is supplied, and otherwise "ID_" followed by what remains of
   new_table_name without its first segment, for every new_table_name. *)
C14_DefaultNameStripsFirstSegment ==
    ExtractionRan =>
        NamedForeignKey(IF last.given_column_name # None
                        THEN last.given_column_name
                        ELSE <<"ID">> \o StripFirstSegment(last.new_table_name))

(* C14 amended: the foreign-key column is named new_column_name when that is
   supplied; otherwise "ID_" followed by what follows the first underscore
   of new_table_name, or by the whole new_table_name when it has no
   underscore: DIM_REGION gives ID_REGION, DIM_GEO_REGION gives
   ID_GEO_REGION, REGION gives ID_REGION. *)
C14_DefaultNameStripsPrefixIfAny ==
    ExtractionRan =>
        /\ NamedForeignKey(
              IF last.given_column_name # None THEN last.given_column_name
              ELSE IF Len(last.new_table_name) > 1
                   THEN <<"ID">> \o Tail(last.new_table_name)
                   ELSE <<"ID">> \o last.new_table_name)
        /\ (last.given_column_name = None
                /\ last.new_table_name \in {<<"DIM", "REGION">>, <<"REGION">>})
              => NamedForeignKey(<<"ID", "REGION">>)
        /\ (last.given_column_name = None
                /\ last.new_table_name = <<"DIM", "GEO", "REGION">>)
              => NamedForeignKey(<<"ID", "GEO", "REGION">>)

(* an extraction without new_column_name into a table whose name has
   several underscores *)
C14_Witness ==
    /\ ExtractionRan
    /\ last.given_column_name = None
    /\ Len(last.new_table_name) = 3

(***************************************************************************)
(* C15..C17: extract_new_table as a transition of the state                *)
(***************************************************************************)
Unchanged ==
    /\ table_state = PreTables
    /\ foreign_key_handler = PreIndex

(* from_table is no key of table_state, or a name in columns is no column
   of the dataset stored under it *)
ExtractionPreconditionFails ==
    \/ last.table \notin DOMAIN PreTables
    \/ \E c \in last.columns : c \notin ColumnLabels(PreTables[last.table])

(* the relation (T, fk) -> (D, ID) of the last extraction *)
LastRelation ==
    <<TableAndColumnName(last.table, last.new_column_name),
      TableAndColumnName(last.new_table_name, ID)>>

(* C15: extract_new_table with from_table absent or a column missing raises
   KeyError; a call that raises leaves table_state and the index as they
   were; a call that returns has stored the new table under D, replaced the
   dataset under T (T # D) by one without cols, and registered the
   relation. *)
C15_ExtractionIsAtomic ==
    last.op = "extract_new_table" =>
        /\ ExtractionPreconditionFails => last.err = "KeyError"
        /\ last.err # "none" => Unchanged
        /\ last.err = "none" =>
              /\ last.new_table_name \in DOMAIN table_state
              /\ ColumnLabels(Dimension) = last.columns \cup {ID}
              /\ last.table # last.new_table_name =>
                    /\ ColumnLabels(SourceAfter) \cap last.columns = {}
                    /\ SourceAfter # SourceBefore
              /\ LastRelation \in FwdRel(foreign_key_handler)
              /\ LastRelation \in InvRel(foreign_key_handler)

(* an extraction of a column that an earlier extraction removed: it raises
   KeyError in a state with two tables and a relation *)
C15_Witness ==
    /\ last.op = "extract_new_table"
    /\ last.err = "KeyError"
    /\ last.table \in DOMAIN PreTables
    /\ Cardinality(DOMAIN PreTables) = 2
    /\ FwdRel(PreIndex) # {}
    /\ Unchanged

(* the last two calls were extractions from the same table T that returned,
   of disjoint column sets, into two different tables other than T, under
   two different foreign-key names *)
TwoExtractionsRan ==
    /\ ExtractionRan
    /\ last.prior.op = "extract_new_table"
    /\ last.prior.err = "none"
    /\ last.prior.table = last.table
    /\ last.prior.columns \cap last.columns = {}
    /\ last.table \notin {last.prior.new_table_name, last.new_table_name}
    /\ last.prior.new_table_name # last.new_table_name
    /\ last.prior.new_column_name # last.new_column_name

PriorRelation ==
    <<TableAndColumnName(last.prior.table, last.prior.new_column_name),
      TableAndColumnName(last.prior.new_table_name, ID)>>

(* C16: the second of two such extractions works on the dataset the first
   left under T: afterwards T has neither c1 nor c2, has every column the
   first left other than c2 (the first foreign-key column among them) plus
   the added second foreign-key column, and both relations are registered;
   and an extraction from T of columns that the extraction before it
   removed raises KeyError and changes nothing. *)
C16_ExtractionsCompose ==
    /\ TwoExtractionsRan =>
          /\ ColumnLabels(SourceAfter)
                \cap (last.prior.columns \cup last.columns) = {}
          /\ NewColumns(SourceAfter, SourceBefore, last.columns) # {}
          /\ last.prior.new_column_name \in ColumnLabels(SourceBefore)
                => last.prior.new_column_name \in ColumnLabels(SourceAfter)
          /\ ID \in ColumnLabels(SourceBefore)
                => last.new_column_name \in ColumnLabels(SourceAfter)
          /\ {PriorRelation, LastRelation} \subseteq Relations(foreign_key_handler)
    /\ (/\ last.op = "extract_new_table"
        /\ last.prior.op = "extract_new_table"
        /\ last.prior.table = last.table
        /\ last.prior.new_table_name # last.table
        /\ last.prior.columns \cap last.columns # {})
          => (last.err = "KeyError" /\ Unchanged)

(* two extractions from the table given at construction, of two of its
   columns, after which it holds both foreign-key columns by name *)
C16_Witness ==
    /\ TwoExtractionsRan
    /\ (last.prior.columns \cup last.columns)
          \subseteq ColumnLabels(original_named_dataframes[last.table])
    /\ {last.prior.new_column_name, last.new_column_name}
          \subseteq ColumnLabels(SourceAfter)

(* C17: extract_new_table whose from_table and columns exist, into a
   new_table_name that is already a key of table_state, raises nothing and
   leaves under new_table_name the new table: the columns cols and "ID", one
   row per combination of cols values of the source, keyed 1..N. *)
C17_ExtractionOverwrites ==
    (/\ last.op = "extract_new_table"
     /\ ~ExtractionPreconditionFails
     /\ last.new_table_name \in DOMAIN PreTables)
        => /\ last.err = "none"
           /\ ColumnLabels(Dimension) = last.columns \cup {ID}
           /\ HasSurrogateKey(Dimension)
           /\ OneRowPerCombination(Dimension, SourceBefore, last.columns)

(* an extraction into the name of another, different table *)
C17_Witness ==
    /\ ExtractionRan
    /\ last.new_table_name \in DOMAIN PreTables
    /\ last.new_table_name # last.table
    /\ PreTables[last.new_table_name] # Dimension

(***************************************************************************)
(* C18, C19: reset_state                                                   *)
(***************************************************************************)
(* what extract_new_table with the arguments of the last call does to the
   state that construction leaves *)
FromConstruction ==
    NH_extract_new_table(initialize_state(original_named_dataframes).table_state,
                         initialize_state(original_named_dataframes).index,
                         last.table, last.columns, last.new_table_name,
                         last.given_column_name)

(* C18: extract_new_table called right after reset_state leaves the tables,
   the index and the exception that the same call leaves on the handler as
   constructed, whatever ran before the reset: the outcome depends on the
   initial tables and the arguments only. *)
C18_ResetThenExtractIsDeterministic ==
    (last.op = "extract_new_table" /\ last.prior.op = "reset_state") =>
        /\ PreTables = original_named_dataframes
        /\ table_state = FromConstruction.table_state
        /\ foreign_key_handler = FromConstruction.index
        /\ last.err = FromConstruction.err

(* an extraction that returned, made after a reset that was not the first
   call *)
C18_Witness ==
    /\ ExtractionRan
    /\ last.prior.op = "reset_state"
    /\ ops >= 3
    /\ Cardinality(DOMAIN table_state) = 2

(* C19: after reset_state, table_state maps the names given at construction
   to the datasets given at construction and the index has no key and no
   relation in either map. *)
C19_ResetRestoresConstruction ==
    last.op = "reset_state" =>
        /\ table_state = original_named_dataframes
        /\ foreign_key_handler = EmptyIndex
        /\ FwdRel(foreign_key_handler) = {}
        /\ InvRel(foreign_key_handler) = {}

(* a reset of a state with other tables and with relations, made after a
   call that raised *)
C19_Witness ==
    /\ last.op = "reset_state"
    /\ last.prior.err # "none"
    /\ PreTables # original_named_dataframes
    /\ FwdRel(PreIndex) # {}
    /\ InvRel(PreIndex) # {}

(***************************************************************************)
(* C20: to_pushable_dataframes                                             *)
(***************************************************************************)
ExportRan == last.op = "to_pushable_dataframes"

(* the relations of the forward map, the one get_foreign_keys reads, whose
   origin is a column of table t *)
RelationsFrom(idx, t) == {rel \in FwdRel(idx) : rel[1].table_name = t}

(* the foreign_keys argument for table t *)
OverridesFor(t) ==
    IF t \in DOMAIN last.foreign_keys THEN last.foreign_keys[t] ELSE EmptyDict

(* C20: to_pushable_dataframes returns one record per key of table_state,
   with the dataset stored under it; the record's foreign keys are defined
   on the columns of the caller's overrides for the table and on the origin
   columns of the index's relations from the table, with the override's
   value where there is one and the relation's target otherwise. *)
C20_ExportMergesForeignKeys ==
    ExportRan =>
        /\ {pdf.table_name : pdf \in last.returned} = DOMAIN table_state
        /\ Cardinality(last.returned) = Cardinality(DOMAIN table_state)
        /\ \A pdf \in last.returned :
              LET own == RelationsFrom(foreign_key_handler, pdf.table_name)
                  over == OverridesFor(pdf.table_name)
              IN /\ pdf.df = table_state[pdf.table_name]
                 /\ DOMAIN pdf.foreign_keys
                       = DOMAIN over \cup {rel[1].column_name : rel \in own}
                 /\ \A c \in DOMAIN over : pdf.foreign_keys[c] = over[c]
                 /\ \A rel \in own :
                       rel[1].column_name \notin DOMAIN over =>
                           pdf.foreign_keys[rel[1].column_name]
                             = ForeignKey(rel[2].table_name, rel[2].column_name)

(* an export where an override and a relation define the same column of a
   table differently, and another table has neither *)
C20_Witness ==
    /\ ExportRan
    /\ \E pdf \in last.returned :
          \E rel \in RelationsFrom(foreign_key_handler, pdf.table_name) :
              /\ rel[1].column_name \in DOMAIN OverridesFor(pdf.table_name)
              /\ OverridesFor(pdf.table_name)[rel[1].column_name]
                    # ForeignKey(rel[2].table_name, rel[2].column_name)
    /\ \E pdf \in last.returned : pdf.foreign_keys = EmptyDict

(***************************************************************************)
(* C21..C23: rename_column of the handler, add_foreign_key, the number of  *)
(* relations                                                               *)
(***************************************************************************)
(* how many columns of df have this label and these values *)
Copies(df, label, vals) ==
    IF Column(label, vals) \in DOMAIN df.cols
    THEN df.cols[Column(label, vals)] ELSE 0

ColumnValues(df) == {c.vals : c \in DOMAIN df.cols}

RenameColumnPreconditionFails ==
    \/ last.table \notin DOMAIN PreTables
    \/ last.old_name \notin ColumnLabels(PreTables[last.table])

(* C21: rename_column(table, old, new) with table absent or old no column of
   it raises KeyError and leaves table_state and the index as they were;
   otherwise it returns, no other entry of table_state changes, the columns
   that were labelled old are labelled new (none is labelled old, old # new)
   and every other column is as before; and, new not in use before, every
   relation of the index with (table, old) at an end is held with
   (table, new) in its place. *)
C21_RenameColumnChecksThenRenames ==
    last.op = "rename_column" =>
        /\ RenameColumnPreconditionFails =>
              (last.err = "KeyError" /\ Unchanged)
        /\ ~RenameColumnPreconditionFails =>
              /\ last.err = "none"
              /\ DOMAIN table_state = DOMAIN PreTables
              /\ \A t \in DOMAIN PreTables \ {last.table} :
                    table_state[t] = PreTables[t]
              /\ table_state[last.table].n = PreTables[last.table].n
              /\ last.new_name \in ColumnLabels(table_state[last.table])
              /\ last.old_name # last.new_name =>
                    /\ last.old_name \notin ColumnLabels(table_state[last.table])
                    /\ \A v \in ColumnValues(PreTables[last.table]) :
                          Copies(table_state[last.table], last.new_name, v)
                            = Copies(PreTables[last.table], last.old_name, v)
                              + Copies(PreTables[last.table], last.new_name, v)
              /\ \A c \in DOMAIN PreTables[last.table].cols :
                    c.name \notin {last.old_name, last.new_name} =>
                        Copies(table_state[last.table], c.name, c.vals)
                            = PreTables[last.table].cols[c]
        /\ RenameColumnRan =>
              \A rel \in Relations(PreIndex) :
                  TableAndColumnName(last.table, last.old_name)
                        \in {rel[1], rel[2]} =>
                      <<RenC(rel[1], last.table, last.old_name, last.new_name),
                        RenC(rel[2], last.table, last.old_name, last.new_name)>>
                          \in Relations(foreign_key_handler)

(* a rename of the key column of a table that other tables point to, the
   table holding it being one of several *)
C21_Witness ==
    /\ RenameColumnRan
    /\ Cardinality(DOMAIN PreTables) >= 2
    /\ last.new_name \in ColumnLabels(table_state[last.table])
    /\ \E rel \in Relations(PreIndex) :
          rel[2] = TableAndColumnName(last.table, last.old_name)
    /\ \E rel \in Relations(foreign_key_handler) :
          rel[2] = TableAndColumnName(last.table, last.new_name)

(* C22: after add_foreign_key(T, fk, D, "ID"), made by an extraction that
   returned, both maps hold (T, fk) -> (D, ID) and neither holds another
   relation with the origin (T, fk). *)
C22_AddOverwritesInBothViews ==
    ExtractionRan =>
        /\ LastRelation \in FwdRel(foreign_key_handler)
        /\ LastRelation \in InvRel(foreign_key_handler)
        /\ \A rel \in FwdRel(foreign_key_handler) \cup InvRel(foreign_key_handler) :
              rel[1] = LastRelation[1] => rel = LastRelation

(* the name a rename introduces was not in use before the call *)
RenameToFreshName ==
    \/ /\ last.op = "rename_table"
       /\ last.old_name \in DOMAIN PreTables
       /\ last.old_name # last.new_name
       /\ ~TableInUse(PreTables, PreIndex, last.new_name)
    \/ /\ last.op = "rename_column"
       /\ ~RenameColumnPreconditionFails
       /\ last.old_name # last.new_name
       /\ ~ColumnInUse(PreTables, PreIndex, last.table, last.new_name)

(* C23: a rename to a name not in use leaves the number of relations of
   the forward map and the total size of the inverse sets as they were, and
   an extraction makes neither number smaller. *)
C23_RenamesKeepRelationCount ==
    /\ RenameToFreshName =>
          /\ Cardinality(FwdRel(foreign_key_handler)) = Cardinality(FwdRel(PreIndex))
          /\ Cardinality(InvRel(foreign_key_handler)) = Cardinality(InvRel(PreIndex))
    /\ last.op = "extract_new_table" =>
          /\ Cardinality(FwdRel(foreign_key_handler)) >= Cardinality(FwdRel(PreIndex))
          /\ Cardinality(InvRel(foreign_key_handler)) >= Cardinality(InvRel(PreIndex))

(***************************************************************************)
(* C27, C28: the index against the tables; what an extraction leaves alone *)
(***************************************************************************)
(* the pair names a table of ts and a column of the dataset stored there *)
Exists(ts, x) ==
    /\ x.table_name \in DOMAIN ts
    /\ x.column_name \in ColumnLabels(ts[x.table_name])

(* every origin and every destination of either map exists in ts *)
IndexAgreesWithTables(ts, idx) ==
    \A rel \in FwdRel(idx) \cup InvRel(idx) :
        Exists(ts, rel[1]) /\ Exists(ts, rel[2])

(* C27: a call that returns, made in a state where every origin and every
   destination of the index is a column of a table of table_state, leaves
   such a state (the handler as constructed is one: its index is empty). *)
C27_IndexAgreesWithTables ==
    (last.op \in {"extract_new_table", "rename_table", "rename_column"}
        /\ last.err = "none"
        /\ IndexAgreesWithTables(PreTables, PreIndex))
    => IndexAgreesWithTables(table_state, foreign_key_handler)

(* C28: extract_new_table(T, cols, D) that returned leaves every entry of
   table_state other than T and D as it was and adds no key but D; T # D:
   the dataset under T has as many rows as before and every column of the
   old T that is not in cols, with its values in the same rows. *)
C28_ExtractionFrame ==
    ExtractionRan =>
        /\ DOMAIN table_state = DOMAIN PreTables \cup {last.new_table_name}
        /\ \A t \in DOMAIN PreTables \ {last.table, last.new_table_name} :
              table_state[t] = PreTables[t]
        /\ last.table # last.new_table_name =>
              /\ SourceAfter.n = SourceBefore.n
              /\ \A c \in DOMAIN SourceBefore.cols :
                    c.name \notin last.columns =>
                        Copies(SourceAfter, c.name, c.vals) >= SourceBefore.cols[c]

(* an extraction from a table with a row that finds no partner in the new
   table, made while a third table is stored *)
C28_Witness ==
    /\ SourceExtractionRan
    /\ DOMAIN PreTables \ {last.table, last.new_table_name} # {}
    /\ \E i \in 1..SourceBefore.n : AllNull(SourceBefore, last.columns, i)
    /\ \E c \in DOMAIN SourceBefore.cols : c.name \notin last.columns

(***************************************************************************)
(* Type inference: DataFrameHandler.infer_SQL_type                         *)
(***************************************************************************)
MaxRows == 3

(* a column name is the sequence of its characters *)
LowerToUpper ==
    ("i" :> "I") @@ ("d" :> "D") @@ ("x" :> "X") @@ ("u" :> "U") @@ ("s" :> "S")

(* str.upper *)
Upper(name) ==
    [i \in 1..Len(name) |->
        IF name[i] \in DOMAIN LowerToUpper THEN LowerToUpper[name[i]] ELSE name[i]]

(* s[:k] *)
First(s, k) == SubSeq(s, 1, IF k < Len(s) THEN k ELSE Len(s))

(* s[-k:] *)
Last(s, k) == SubSeq(s, IF Len(s) > k THEN Len(s) - k + 1 ELSE 1, Len(s))

(* the column names given to the inference *)
ColumnNames ==
    { <<"I", "D">>, <<"i", "d", "_", "x">>, <<"I", "D", "X">>,
      <<"D", "S", "_", "E", "S">>, <<"T", "X", "_", "E", "S">>,
      <<"C", "O", "_", "I", "D">>, <<"S", "W", "_", "M", "B">>,
      <<"D", "A", "_", "X">>, <<"T", "S", "_", "X">>,
      <<"X", "_", "E", "U", "R">>, <<"x", "_", "u", "s", "d">>,
      <<"N", "C", "O", "U", "N", "T">>, <<"B", "A", "D">>,
      <<"T", "X", "_", "C", "O", "U", "N", "T">>,
      <<"C", "O", "_", "E", "U", "R">> }

(* a cell: what kind of value it is, the length of str(value), and for a
   timestamp its hour, minute and second *)
Cell(kind, len, hour, minute, second) ==
    [kind |-> kind, len |-> len, hour |-> hour, minute |-> minute,
     second |-> second]

NullCell == Cell("null", 0, 0, 0, 0)

Str(len) == Cell("str", len, 0, 0, 0)

(* the cells a column of each dtype can hold: bool and int64 hold no null;
   an object column holds strings (the empty one too), None, and other
   objects such as True, whose str has 4 characters *)
CellsOf ==
    [bool |-> {Cell("bool", 4, 0, 0, 0), Cell("bool", 5, 0, 0, 0)},
     int64 |-> {Cell("int", 1, 0, 0, 0), Cell("int", 2, 0, 0, 0)},
     float64 |-> {NullCell, Cell("float", 4, 0, 0, 0)},
     datetime64 |-> {Cell("time", 19, 0, 0, 0), Cell("time", 19, 9, 0, 0),
                     Cell("time", 19, 0, 0, 30)},
     object |-> {NullCell, Str(0), Str(3), Str(4), Str(5),
                 Cell("bool", 4, 0, 0, 0)}]

(* pd.Series *)
Series(dtype, cells) == [dtype |-> dtype, cells |-> cells]

AllSeries ==
    UNION { UNION { {Series(dtype, cells) : cells \in [1..n -> CellsOf[dtype]]}
                    : n \in 1..MaxRows }
            : dtype \in DOMAIN CellsOf }

(* col[col.isna() == False] *)
NonNull(col) == [col EXCEPT !.cells = SelectSeq(col.cells, LAMBDA c : c.kind # "null")]

(* an SQL type; length is Null for a type built without an argument *)
SQLType(tag, length) == [tag |-> tag, length |-> length]

Integer == SQLType("Integer", Null)

Boolean == SQLType("Boolean", Null)

Float == SQLType("Float", Null)

DATE == SQLType("DATE", Null)

DATETIME == SQLType("DATETIME", Null)

String(length) == SQLType("String", length)

CHAR(length) == SQLType("CHAR", length)

PotentialCHAR == SQLType("PotentialCHAR", Null)

PotentialDATE == SQLType("PotentialDATE", Null)

UnknownType == SQLType("UnknownType", Null)

UndeterminedType == {PotentialCHAR, PotentialDATE, UnknownType}

(* what a resolver gives: a type, or the exception it raises *)
Resolved(type) == [type |-> type, err |-> "none"]

Raised(err) == [type |-> UnknownType, err |-> err]

infer_by_name(column_name) ==
    LET upper == Upper(column_name)
        prefix == First(upper \o <<"_">>, 3)
        suffix == Last(upper, 4)
    IN  IF prefix = <<"I", "D", "_">> THEN Integer
        ELSE IF prefix = <<"D", "S", "_">> THEN String(Null)
        ELSE IF prefix \in {<<"T", "X", "_">>, <<"C", "O", "_">>} THEN PotentialCHAR
        ELSE IF prefix = <<"S", "W", "_">> THEN Boolean
        ELSE IF prefix = <<"D", "A", "_">> THEN DATE
        ELSE IF prefix = <<"T", "S", "_">> THEN DATETIME
        ELSE IF suffix \in {<<"_", "E", "U", "R">>, <<"_", "U", "S", "D">>} THEN Float
        ELSE IF Last(upper, 5) = <<"C", "O", "U", "N", "T">> THEN Integer
        ELSE UnknownType

(* pandas.api.types.is_string_dtype of an object column: true for every
   object column, or (checks_elements, newer pandas) only when every element
   is a string *)
is_string_dtype(col, checks_elements) ==
    /\ col.dtype = "object"
    /\ checks_elements => \A i \in 1..Len(col.cells) : col.cells[i].kind = "str"

infer_by_dtype(col, checks_elements) ==
    LET nonnull == NonNull(col)
    IN  IF Len(nonnull.cells) = 0 THEN Raised("ValueError")
        ELSE IF nonnull.dtype = "bool" THEN Resolved(Boolean)
        ELSE IF nonnull.dtype = "int64" THEN Resolved(Integer)
        ELSE IF nonnull.dtype = "float64" THEN Resolved(Float)
        ELSE IF nonnull.dtype = "datetime64" THEN Resolved(PotentialDATE)
        ELSE IF is_string_dtype(nonnull, checks_elements) THEN Resolved(PotentialCHAR)
        ELSE Resolved(UnknownType)

(* a column of timestamps without NaT: DATE when every hour, minute and
   second is 0 *)
resolve_potential_date(col) ==
    IF \A i \in 1..Len(col.cells) :
           col.cells[i].hour = 0 /\ col.cells[i].minute = 0 /\ col.cells[i].second = 0
    THEN Resolved(DATE)
    ELSE Resolved(DATETIME)

SetMin(S) == CHOOSE x \in S : \A y \in S : x <= y

SetMax(S) == CHOOSE x \in S : \A y \in S : y <= x

(* variant: the empty strings count in the minimum *)
resolve_stringtype_counting_empty(col) ==
    LET as_strings == NonNull(col).cells
        lengths == {as_strings[i].len : i \in 1..Len(as_strings)}
    IN  IF SetMin(lengths) = SetMax(lengths)
        THEN Resolved(CHAR(SetMax(lengths)))
        ELSE Resolved(String(2 * SetMax(lengths)))

(* m is the least length above 0: of no length at all it is NaN, and
   int(NaN) raises ValueError *)
resolve_stringtype(col) ==
    LET as_strings == NonNull(col).cells
        lengths == {as_strings[i].len : i \in 1..Len(as_strings)}
        positive == {l \in lengths : l > 0}
    IN  IF positive = {} THEN Raised("ValueError")
        ELSE IF SetMin(positive) = SetMax(lengths)
             THEN Resolved(CHAR(SetMax(lengths)))
             ELSE Resolved(String(2 * SetMax(lengths)))

infer_by_value(inferred_dtype, col) ==
    IF inferred_dtype = PotentialDATE
    THEN resolve_potential_date(col)
    ELSE resolve_stringtype(col)

(* what infer_SQL_type gives: the type returned or the exception, and the
   resolvers it called, in order *)
Inferred(r, called) == [type |-> r.type, err |-> r.err, called |-> called]

(* variant: the dtype is asked before the name *)
infer_SQL_type_dtype_first(col, col_name, checks_elements) ==
    LET by_dtype == infer_by_dtype(col, checks_elements)
        by_name == infer_by_name(col_name)
    IN  IF by_dtype.err # "none" \/ by_dtype.type \notin UndeterminedType
        THEN Inferred(by_dtype, <<"dtype">>)
        ELSE IF by_name \notin UndeterminedType
        THEN Inferred(Resolved(by_name), <<"dtype", "name">>)
        ELSE Inferred(infer_by_value(by_dtype.type, col), <<"dtype", "name", "value">>)

infer_SQL_type(col, col_name, checks_elements) ==
    LET by_name == infer_by_name(col_name)
        by_dtype == infer_by_dtype(col, checks_elements)
        by_value == infer_by_value(by_dtype.type, col)
    IN  IF by_name \notin UndeterminedType
        THEN Inferred(Resolved(by_name), <<"name">>)
        ELSE IF by_dtype.err # "none" \/ by_dtype.type \notin UndeterminedType
        THEN Inferred(by_dtype, <<"name", "dtype">>)
        ELSE IF by_value.err # "none" \/ by_value.type \notin UndeterminedType
        THEN Inferred(by_value, <<"name", "dtype", "value">>)
        ELSE Inferred(Raised("TypeError"), <<"name", "dtype", "value">>)

(* the handler as constructed from the frame of the test, untouched *)
HandlerIdle ==
    /\ original_named_dataframes = (FACT :> ScenarioFrame)
    /\ table_state = initialize_state(original_named_dataframes).table_state
    /\ foreign_key_handler = initialize_state(original_named_dataframes).index
    /\ last = NoCall
    /\ dimension_tables = {}
    /\ ops = 0

(* infer_SQL_type has not been called on the column yet *)
NotInferred == Inferred(Raised("none"), <<>>)

(* a column of a frame and its label *)
InitTypes ==
    /\ HandlerIdle
    /\ \E col \in AllSeries, col_name \in ColumnNames :
           inference = [col |-> col, col_name |-> col_name, out |-> NotInferred]
    /\ threads = NoThreads
    /\ query = NoQuery

(* one call of infer_SQL_type on the column *)
infer_one_column ==
    \E checks_elements \in BOOLEAN :
        /\ inference.out = NotInferred
        /\ inference' = [inference EXCEPT !.out =
               infer_SQL_type(inference.col, inference.col_name, checks_elements)]
        /\ UNCHANGED <<original_named_dataframes, table_state,
                       foreign_key_handler, last, dimension_tables, ops,
                       threads, query>>

NextTypes == infer_one_column

SpecTypes == InitTypes /\ [][NextTypes]_vars

(* infer_SQL_type was called *)
InferenceRan == inference # NoInference /\ inference.out # NotInferred

(* the name of the column, in upper case, starts with p / ends with p *)
HasPrefix(p) == First(Upper(inference.col_name) \o <<"_">>, 3) = p

HasSuffix(p) == Last(Upper(inference.col_name), Len(p)) = p

(* the prefixes with a rule of their own *)
RulePrefixes ==
    { <<"I", "D", "_">>, <<"D", "S", "_">>, <<"T", "X", "_">>, <<"C", "O", "_">>,
      <<"S", "W", "_">>, <<"D", "A", "_">>, <<"T", "S", "_">> }

(* the type the name decides, if it decides one *)
NameDecides(type) ==
    \/ HasPrefix(<<"I", "D", "_">>) /\ type = Integer
    \/ HasPrefix(<<"D", "S", "_">>) /\ type = String(Null)
    \/ HasPrefix(<<"S", "W", "_">>) /\ type = Boolean
    \/ HasPrefix(<<"D", "A", "_">>) /\ type = DATE
    \/ HasPrefix(<<"T", "S", "_">>) /\ type = DATETIME
    \/ /\ \A p \in RulePrefixes : ~HasPrefix(p)
       /\ \/ (HasSuffix(<<"_", "E", "U", "R">>) \/ HasSuffix(<<"_", "U", "S", "D">>))
             /\ type = Float
          \/ ~HasSuffix(<<"_", "E", "U", "R">>) /\ ~HasSuffix(<<"_", "U", "S", "D">>)
             /\ HasSuffix(<<"C", "O", "U", "N", "T">>) /\ type = Integer

(* the type the dtype decides, if it decides one *)
DtypeDecides(type) ==
    /\ \E i \in 1..Len(inference.col.cells) : inference.col.cells[i].kind # "null"
    /\ \/ inference.col.dtype = "bool" /\ type = Boolean
       \/ inference.col.dtype = "int64" /\ type = Integer
       \/ inference.col.dtype = "float64" /\ type = Float

(* C24: the resolvers are tried in the order name, dtype, values, and the
   first type that is not undetermined is returned: if the name decides a
   type, that type is returned and neither the dtype nor the values are
   looked at; if the name does not but the dtype does, that type is returned
   after the name and the dtype were asked; in every other case all three
   were asked, or the dtype resolver raised; the type returned is never an
   undetermined one, and TypeError only comes after all three were asked. *)
C24_ResolversInOrder ==
    InferenceRan =>
        LET out == inference.out
        IN  /\ \A type \in {Integer, String(Null), Boolean, DATE, DATETIME, Float} :
                  NameDecides(type) =>
                      out.type = type /\ out.err = "none" /\ out.called = <<"name">>
            /\ \A type \in {Boolean, Integer, Float} :
                  (DtypeDecides(type) /\ ~\E t \in {Integer, String(Null), Boolean, DATE, DATETIME, Float} : NameDecides(t)) =>
                      out.type = type /\ out.err = "none"
                          /\ out.called = <<"name", "dtype">>
            /\ out.called \in {<<"name">>, <<"name", "dtype">>,
                               <<"name", "dtype", "value">>}
            /\ out.err = "none" => out.type \notin UndeterminedType
            /\ out.err = "TypeError" => out.called = <<"name", "dtype", "value">>

(* a column of strings of different lengths whose name says Integer *)
C24_Witness ==
    /\ InferenceRan
    /\ NameDecides(Integer)
    /\ inference.col.dtype = "object"
    /\ \E i, j \in 1..Len(inference.col.cells) :
          /\ inference.col.cells[i].kind = "str"
          /\ inference.col.cells[j].kind = "str"
          /\ inference.col.cells[i].len # inference.col.cells[j].len
    /\ inference.out.type = Integer

(* the lengths of the non-null values of the column *)
ValueLengths ==
    {inference.col.cells[i].len :
        i \in {j \in 1..Len(inference.col.cells) : inference.col.cells[j].kind # "null"}}

(* a column of strings (and nulls) with a string in it, under a name with a
   TX_ or CO_ prefix or with no rule at all *)
StringColumnInferred ==
    /\ InferenceRan
    /\ inference.col.dtype = "object"
    /\ \A i \in 1..Len(inference.col.cells) : inference.col.cells[i].kind \in {"str", "null"}
    /\ ValueLengths # {}
    /\ ~\E t \in {Integer, String(Null), Boolean, DATE, DATETIME, Float} : NameDecides(t)

(* C25 as stated: a column of strings whose name does not fix the type is
   CHAR(n) when all its non-null values have the same length n, and
   String(2 * the greatest length) otherwise. *)
C25_CharIffAllLengthsEqual ==
    StringColumnInferred =>
        /\ inference.out.err = "none"
        /\ inference.out.type =
              IF Cardinality(ValueLengths) = 1
              THEN CHAR(SetMax(ValueLengths))
              ELSE String(2 * SetMax(ValueLengths))

(* C25, amended: the empty strings are left out of the comparison: the type
   is CHAR(n) when all non-null, non-empty values have the same length n,
   String(2 * the greatest length) when they have different lengths, and
   ValueError is raised when every non-null value is the empty string. *)
C25_CharIffNonEmptyLengthsEqual ==
    StringColumnInferred =>
        LET nonempty == ValueLengths \ {0}
        IN  IF nonempty = {}
            THEN inference.out.err = "ValueError"
            ELSE /\ inference.out.err = "none"
                 /\ inference.out.type =
                       IF Cardinality(nonempty) = 1
                       THEN CHAR(SetMax(nonempty))
                       ELSE String(2 * SetMax(nonempty))

(* a column with a null, an empty string and a string of three characters *)
C25_Witness ==
    /\ StringColumnInferred
    /\ ValueLengths = {0, 3}
    /\ \E i \in 1..Len(inference.col.cells) : inference.col.cells[i].kind = "null"
    /\ inference.out.type = CHAR(3)

(***************************************************************************)
(* ParametrizedQuery and ConnectionHandler.__execute                       *)
(***************************************************************************)
MaxCalls == 3

(* the parameter names a query text can hold and the values given to them *)
ParameterNames == {"schema", "table"}

ParameterValues == {"", "dbo"}

(* every dict from some parameter names to values *)
ParameterDicts == UNION {[names -> ParameterValues] : names \in SUBSET ParameterNames}

(* QueryBuilder.initialize_params: every parameter of the text, with "" *)
initialize_params(names) == [k \in names |-> ""]

(* ParametrizedQuery.__init__ *)
ParametrizedQuery(params) == [params |-> params, is_formatted |-> DOMAIN params = {}]

is_formattable(q) == q.is_formatted

get_params(q) == q.params

(* variant: the assertion is not evaluated *)
format_params_unasserted(q, params) ==
    [q |-> [params |-> params, is_formatted |-> TRUE], err |-> "none"]

(* ParametrizedQuery.format_params: the query after the call and the
   exception raised *)
format_params(q, params) ==
    IF DOMAIN params # DOMAIN q.params
    THEN [q |-> q, err |-> "AssertionError"]
    ELSE [q |-> [params |-> params, is_formatted |-> TRUE], err |-> "none"]

(* ConnectionHandler.__execute: the calls the connection has received after
   the call, and the exception raised *)
execute(con, q) ==
    IF ~is_formattable(q)
    THEN [con |-> con, err |-> "ValueError"]
    ELSE [con |-> Append(con, get_params(q)), err |-> "none"]

(* a query built by QueryBuilder from a text, and a connection that has
   received nothing; names are the parameters of the text, exact tells
   whether format_params was called with exactly those names *)
InitQuery ==
    /\ HandlerIdle
    /\ inference = NoInference
    /\ threads = NoThreads
    /\ \E names \in SUBSET ParameterNames :
           query = [q |-> ParametrizedQuery(initialize_params(names)),
                    names |-> names, exact |-> FALSE, con |-> <<>>,
                    op |-> "init", err |-> "none", pre_con |-> <<>>,
                    executable |-> FALSE, calls |-> 0]

UnchangedButQuery ==
    UNCHANGED <<original_named_dataframes, table_state, foreign_key_handler,
                last, dimension_tables, ops, inference, threads>>

call_format_params ==
    \E params \in ParameterDicts :
        LET r == format_params(query.q, params)
        IN  /\ query.calls < MaxCalls
            /\ query' = [query EXCEPT !.q = r.q, !.err = r.err,
                             !.op = "format_params",
                             !.exact = @ \/ DOMAIN params = query.names,
                             !.pre_con = query.con,
                             !.calls = @ + 1]
            /\ UnchangedButQuery

call_execute ==
    LET r == execute(query.con, query.q)
    IN  /\ query.calls < MaxCalls
        /\ query' = [query EXCEPT !.con = r.con, !.err = r.err,
                         !.op = "execute",
                         !.executable = query.names = {} \/ query.exact,
                         !.pre_con = query.con,
                         !.calls = @ + 1]
        /\ UnchangedButQuery

NextQuery == call_format_params \/ call_execute

SpecQuery == InitQuery /\ [][NextQuery]_vars

(* C29: the query is executable exactly when its text has no parameter or
   format_params was called with exactly its parameter names; execute on a
   query that is not raises ValueError and the connection receives nothing,
   execute on one that is hands it to the connection; so everything the
   connection received has a value for every parameter of the text. *)
C29_OnlyFormattedQueriesAreSent ==
    query # NoQuery =>
        /\ is_formattable(query.q) <=> (query.names = {} \/ query.exact)
        /\ query.op = "execute" =>
              IF query.executable
              THEN query.err = "none" /\ Len(query.con) = Len(query.pre_con) + 1
              ELSE query.err = "ValueError" /\ query.con = query.pre_con
        /\ \A i \in 1..Len(query.con) : DOMAIN query.con[i] = query.names

(* a query with two parameters was refused, then given both values, then
   sent *)
C29_Witness ==
    /\ query # NoQuery
    /\ query.names = ParameterNames
    /\ query.op = "execute"
    /\ query.err = "none"
    /\ query.calls = 3
    /\ Len(query.con) = 1

(***************************************************************************)
(* Two threads on one _ForeignKeyStateHandler: the add_foreign_key that    *)
(* ends an extract_new_table and the rename_table that ends a              *)
(* NormalizationHandler.rename_table, each step one update of one map.     *)
(* The adder never names STAGE, so the dictionaries the renamer iterates   *)
(* over are not resized under it.                                          *)
(***************************************************************************)
ID_CO == <<"ID", "CO">>

(* the index the threads start from: as constructed, after one extraction,
   after two extractions *)
StartingIndexes ==
    { EmptyIndex,
      FK_add_foreign_key(EmptyIndex, FACT, ID_CO, DIM_CO, ID),
      FK_add_foreign_key(
          FK_add_foreign_key(EmptyIndex, FACT, ID_CO, DIM_CO, ID),
          DIM_CO, ID_NAME, DIM_NAME, ID) }

(* the arguments of the add_foreign_key and of the rename_table *)
AdderCalls ==
    [origin_table : {FACT}, origin_column : {ID_NAME, ID_CO},
     destination_table : {DIM_NAME, DIM_CO}, destination_column : {ID}]

RenamerCalls == [old_name : {FACT, DIM_CO, DIM_NAME}, new_name : {STAGE}]

InitThreads ==
    /\ HandlerIdle
    /\ inference = NoInference
    /\ query = NoQuery
    /\ \E idx \in StartingIndexes, a \in AdderCalls, r \in RenamerCalls :
           threads = [index |-> idx, start |-> idx, adder |-> a, renamer |-> r,
                      adder_pc |-> "forward", renamer_pc |-> "move_forward",
                      columns |-> <<>>, members |-> {}, err |-> "none",
                      interleaved |-> FALSE]

UnchangedButThreads ==
    UNCHANGED <<original_named_dataframes, table_state, foreign_key_handler,
                last, dimension_tables, ops, inference, query>>

(* the thread is between its first step and its last *)
AdderRunning == threads.adder_pc = "inverse"

RenamerRunning == threads.renamer_pc \notin {"move_forward", "done"}

(* a step of the adder / of the renamer: the other thread is then cut in
   two if it is running *)
AdderStep(next) ==
    /\ threads' = [next EXCEPT !.interleaved = @ \/ RenamerRunning]
    /\ UnchangedButThreads

RenamerStep(next) ==
    /\ threads' = [next EXCEPT !.interleaved = @ \/ AdderRunning]
    /\ UnchangedButThreads

(* foreign_keys[origin_table][origin_column] = destination *)
add_forward ==
    /\ threads.adder_pc = "forward"
    /\ AdderStep([threads EXCEPT
           !.index.foreign_keys =
               Put2(@, threads.adder.origin_table, threads.adder.origin_column,
                    TableAndColumnName(threads.adder.destination_table,
                                       threads.adder.destination_column)),
           !.adder_pc = "inverse"])

(* variant: the origin is added under its own table instead of under the
   destination *)
add_inverse_under_origin ==
    /\ threads.adder_pc = "inverse"
    /\ AdderStep([threads EXCEPT
           !.index.inverted_index =
               LET inv1 == Touch2(@, threads.adder.origin_table,
                                  threads.adder.destination_column)
               IN Put2(inv1, threads.adder.origin_table,
                       threads.adder.destination_column,
                       inv1[threads.adder.origin_table]
                               .val[threads.adder.destination_column]
                           \cup {TableAndColumnName(threads.adder.origin_table,
                                                    threads.adder.origin_column)}),
           !.adder_pc = "done"])

(* inverted_index[destination_table][destination_column].add(origin) *)
add_inverse ==
    /\ threads.adder_pc = "inverse"
    /\ AdderStep([threads EXCEPT
           !.index.inverted_index =
               LET inv1 == Touch2(@, threads.adder.destination_table,
                                  threads.adder.destination_column)
               IN Put2(inv1, threads.adder.destination_table,
                       threads.adder.destination_column,
                       inv1[threads.adder.destination_table]
                               .val[threads.adder.destination_column]
                           \cup {TableAndColumnName(threads.adder.origin_table,
                                                    threads.adder.origin_column)}),
           !.adder_pc = "done"])

(* foreign_keys[new_name] = foreign_keys.pop(old_name) if old_name is a key;
   then the first loop starts on foreign_keys[new_name].items() *)
rename_move_forward ==
    /\ threads.renamer_pc = "move_forward"
    /\ LET old_name == threads.renamer.old_name
           new_name == threads.renamer.new_name
           fk == threads.index.foreign_keys
           fk1 == IF old_name \in DOMAIN fk
                  THEN Put(Pop(fk, old_name), new_name, fk[old_name])
                  ELSE fk
           fk2 == Touch(fk1, new_name, ODEmpty)
       IN RenamerStep([threads EXCEPT
              !.index.foreign_keys = fk2,
              !.columns = fk2[new_name].keys,
              !.renamer_pc = "replace_origins"])

(* one turn of the first loop: __replace_in_inverted_index for the next
   pointing column *)
rename_replace_origin ==
    /\ threads.renamer_pc = "replace_origins"
    /\ threads.columns # <<>>
    /\ LET c == Head(threads.columns)
           pointed == threads.index.foreign_keys[threads.renamer.new_name].val[c]
       IN RenamerStep([threads EXCEPT
              !.index.inverted_index =
                  FK_replace_in_inverted_index(@,
                      pointed.table_name, pointed.column_name,
                      TableAndColumnName(threads.renamer.old_name, c),
                      TableAndColumnName(threads.renamer.new_name, c)),
              !.columns = Tail(@)])

(* inverted_index[new_name] = inverted_index.pop(old_name), KeyError if
   old_name is no key; then the second loop starts on the members of
   inverted_index[new_name] *)
rename_move_inverse ==
    /\ threads.renamer_pc = "replace_origins"
    /\ threads.columns = <<>>
    /\ LET old_name == threads.renamer.old_name
           new_name == threads.renamer.new_name
           inv == threads.index.inverted_index
           inv2 == Put(Pop(inv, old_name), new_name, inv[old_name])
           members == UNION {{<<c, o>> : o \in inv2[new_name].val[c]}
                                : c \in DOMAIN inv2[new_name].val}
       IN IF old_name \notin DOMAIN inv
          THEN RenamerStep([threads EXCEPT !.err = "KeyError",
                                           !.renamer_pc = "done"])
          ELSE RenamerStep([threads EXCEPT
                   !.index.inverted_index = inv2,
                   !.members = members,
                   !.renamer_pc = IF members = {} THEN "done" ELSE "retarget"])

(* one turn of the second loop:
   foreign_keys[pointing_table][pointing_column] = (new_name, pointed_column) *)
rename_retarget ==
    /\ threads.renamer_pc = "retarget"
    /\ \E m \in threads.members :
           RenamerStep([threads EXCEPT
               !.index.foreign_keys =
                   Put2(@, m[2].table_name, m[2].column_name,
                        TableAndColumnName(threads.renamer.new_name, m[1])),
               !.members = @ \ {m},
               !.renamer_pc = IF threads.members = {m} THEN "done" ELSE "retarget"])

NextThreads ==
    \/ add_forward
    \/ add_inverse
    \/ rename_move_forward
    \/ rename_replace_origin
    \/ rename_move_inverse
    \/ rename_retarget

SpecThreads == InitThreads /\ [][NextThreads]_vars

(* both operations have finished *)
BothFinished ==
    threads # NoThreads /\ threads.adder_pc = "done" /\ threads.renamer_pc = "done"

(* the origin the adder registers has no relation in the starting index,
   whose two maps agree *)
FreshOrigin ==
    /\ FwdRel(threads.start) = InvRel(threads.start)
    /\ \A rel \in FwdRel(threads.start) :
          rel[1] # TableAndColumnName(threads.adder.origin_table,
                                      threads.adder.origin_column)

(* C26: two threads can leave the two maps disagreeing after both have
   finished (the state C26_Witness describes is reached), and it is the
   interleaving that does it: when the add_foreign_key of a new origin and
   the rename_table ran one after the other, in either order, the maps
   agree once both have finished. *)
C26_OnlyInterleavingBreaksConsistency ==
    (BothFinished /\ FreshOrigin /\ ~threads.interleaved)
    => FwdRel(threads.index) = InvRel(threads.index)

(* both threads have finished, from maps that agreed and with a new origin,
   and the inverted index holds a relation that the forward map does not *)
C26_Witness ==
    /\ BothFinished
    /\ FreshOrigin
    /\ threads.interleaved
    /\ InvRel(threads.index) \ FwdRel(threads.index) # {}

====
